---- MODULE Spec2Model ----
(***************************************************************************)
(* State-machine model of the portfolio server's two stateful components:  *)
(* the design-system registry (app/crud/design.py, app/api/routes/         *)
(* design.py) and the tag store (app/crud/data.py), over the request-      *)
(* scoped SQLAlchemy session of app/core/database.py.                      *)
(*                                                                         *)
(* A table is a function from the primary keys of its rows to the rows.    *)
(* A session is a record [committed, pending]: the table as committed in   *)
(* the database and the table as the open transaction sees it.             *)
(***************************************************************************)
EXTENDS Integers, FiniteSets, Sequences, TLC

\* Largest primary key the design_systems sequence hands out in the model.
MaxDesigns == 2
\* Largest primary key the tags sequence hands out in the model.
MaxTags == 3

\* Python's None / SQL NULL. No name or section value of the model equals it.
Null == "null"
\* The id returned when a lookup finds no row (Python None for a row).
NoRow == 0

\* The five config sections (crud/design.py line 39).
Sections == {"colors", "dark_mode", "typography", "spacing", "border_radius"}
\* The fields DesignSystemUpdate declares.
UpdateFields == {"name"} \cup Sections
\* A section is a whole sub-document; the code only ever copies or replaces it.
SectionVals == {"doc_a", "doc_b"}
Names == {"Default Theme", "Alternative Theme"}
TagNames == {"tag", "Tag", "tagging", "test"}

VARIABLES
    designs,        \* committed design_systems table: id -> [name, config, is_active]
    nextDesignId,   \* next value of the design_systems primary-key sequence
    everActivated,  \* TRUE once a set_active_design_system call has committed
    pre,            \* the committed design_systems table before the last request
    last,           \* the last design request: its inputs and its response
    tags,           \* committed tags table: id -> name
    nextTagId,      \* next value of the tags primary-key sequence
    returned,       \* tag name -> the identities get_or_create_tag has returned for it
    lastTag,        \* the last get_or_create_tag call: [name, ret, hit, fault]
    items,          \* committed dynamic_data table: id -> [title, description, content]
    data_tags,      \* committed data_tags rows: item id -> the tag ids of its rows, in order
    nextItemId,     \* next value of the dynamic_data primary-key sequence
    preData,        \* the committed data tables before the last data request
    lastData,       \* the last data request: its inputs and its response
    paged,          \* the last pagination computation: its inputs and its result
    procs           \* the requests in flight: process -> its position and local state

designVars == <<designs, nextDesignId, everActivated, pre, last>>
tagVars == <<tags, nextTagId, returned, lastTag>>
itemVars == <<items, data_tags, nextItemId, preData, lastData, paged>>
vars == <<designs, nextDesignId, everActivated, pre, last, tags, nextTagId, returned, lastTag,
          items, data_tags, nextItemId, preData, lastData, paged, procs>>

----------------------------------------------------------------------------
(* The session (app/core/database.py) *)

\* SessionLocal(): a session whose transaction starts from the committed table.
SessionLocal(db) == [committed |-> db, pending |-> db]

\* The unique index on design_systems.name; NULL names never collide.
NamesUnique(table) ==
    \A i, j \in DOMAIN table :
        (i # j /\ table[i].name # Null) => table[i].name # table[j].name

\* db.commit(): the pending rows become the committed ones.
commit(s) == [committed |-> s.pending, pending |-> s.pending]

\* A request that ends with its transaction still open and keeps it open.
closeKeepsPending(s) == s.pending

\* get_db's finally: db.close() rolls back whatever was not committed.
close(s) == s.committed

----------------------------------------------------------------------------
(* app/crud/design.py *)

ActiveIds(table) == {i \in DOMAIN table : table[i].is_active}

\* Column(Boolean, default=True): the value a row gets when is_active is not given.
IsActiveDefault == TRUE

get_design_system(table, design_id) ==
    IF design_id \in DOMAIN table THEN design_id ELSE NoRow

\* A name lookup that never finds a row.
get_design_system_by_name_miss(table, name) == {NoRow}

\* .first() without ORDER BY: any row with that name (the unique index leaves one).
get_design_system_by_name(table, name) ==
    IF \E i \in DOMAIN table : table[i].name = name
    THEN {i \in DOMAIN table : table[i].name = name}
    ELSE {NoRow}

\* .filter(is_active == True).first() without ORDER BY: the database may return
\* any active row; NoRow when there is none.
get_active_design_system(table) ==
    IF ActiveIds(table) = {} THEN {NoRow} ELSE ActiveIds(table)

\* A crud call's outcome: the session after it, the row id it returns
\* (NoRow for None/False) and whether it raised a storage fault.
Outcome(s, ret, fault) == [s |-> s, ret |-> ret, fault |-> fault]

\* db.add + db.commit of a table: the flush fails on a duplicate name.
FlushAndCommit(s, pending, ret) ==
    IF NamesUnique(pending)
    THEN Outcome(commit([s EXCEPT !.pending = pending]), ret, FALSE)
    ELSE Outcome([s EXCEPT !.pending = pending], NoRow, TRUE)

create_design_system(s, new_id, name, config) ==
    LET row == [name |-> name, config |-> config, is_active |-> IsActiveDefault]
        pending == [i \in DOMAIN s.pending \cup {new_id} |->
                        IF i = new_id THEN row ELSE s.pending[i]]
    IN FlushAndCommit(s, pending, new_id)

\* DesignSystemUpdate(**kwargs).dict(exclude_unset=True): pydantic keeps the
\* declared fields that were given and ignores every other keyword.
DesignSystemUpdate(kwargs) ==
    [k \in DOMAIN kwargs \cap UpdateFields |-> kwargs[k]]

\* Lines 39-45 with config = {} in place of config = db_design_system.config.copy().
MergeConfigNoCopy(config, update_data) ==
    IF DOMAIN update_data \cap Sections = {} THEN config
    ELSE [k \in DOMAIN update_data \cap Sections |-> update_data[k]]

\* Lines 39-45: the sections present in update_data replace those of the copy.
MergeConfig(config, update_data) ==
    [k \in DOMAIN config \cup (DOMAIN update_data \cap Sections) |->
        IF k \in DOMAIN update_data THEN update_data[k] ELSE config[k]]

update_design_system(s, design_id, update_data) ==
    IF get_design_system(s.pending, design_id) = NoRow
    THEN Outcome(s, NoRow, FALSE)
    ELSE LET row == s.pending[design_id]
             newRow == [name |-> IF "name" \in DOMAIN update_data
                                 THEN update_data["name"] ELSE row.name,
                        config |-> MergeConfig(row.config, update_data),
                        is_active |-> row.is_active]
         IN FlushAndCommit(s, [s.pending EXCEPT ![design_id] = newRow], design_id)

\* set_active without its first statement.
DeactivateNone(table) == table

\* Line 57: db.query(DesignSystem).update({"is_active": False}), inside the
\* transaction.
DeactivateAll(table) == [i \in DOMAIN table |-> [table[i] EXCEPT !.is_active = FALSE]]

set_active_design_system(s, design_id) ==
    LET s1 == [s EXCEPT !.pending = DeactivateAll(s.pending)]
    IN IF get_design_system(s1.pending, design_id) = NoRow
       THEN Outcome(s1, NoRow, FALSE)
       ELSE Outcome(commit([s1 EXCEPT !.pending[design_id].is_active = TRUE]),
                    design_id, FALSE)

\* delete without the is_active check of lines 74-76.
MayDeleteAny(row) == TRUE

\* Lines 74-76: the active design system is not deleted.
MayDelete(row) == ~row.is_active

delete_design_system(s, design_id) ==
    IF get_design_system(s.pending, design_id) = NoRow
    THEN Outcome(s, NoRow, FALSE)
    ELSE IF ~MayDelete(s.pending[design_id])
    THEN Outcome(s, NoRow, FALSE)
    ELSE Outcome(commit([s EXCEPT !.pending =
                            [i \in DOMAIN s.pending \ {design_id} |-> s.pending[i]]]),
                 design_id, FALSE)

----------------------------------------------------------------------------
(* app/crud/data.py: the tag store *)

\* A tags table without the unique index on name.
TagNamesUnchecked(table) == TRUE

\* The unique index on tags.name.
TagNamesUnique(table) ==
    \A i, j \in DOMAIN table : i # j => table[i] # table[j]

\* A lookup that folds case before comparing.
Lower(name) == IF name = "Tag" THEN "tag" ELSE name
get_tag_by_name_folded(table, name) ==
    IF \E i \in DOMAIN table : Lower(table[i]) = Lower(name)
    THEN {i \in DOMAIN table : Lower(table[i]) = Lower(name)}
    ELSE {NoRow}

\* Lines 8-9: Tag.name == name, compared exactly; .first() of the matches.
get_tag_by_name(table, name) ==
    IF \E i \in DOMAIN table : table[i] = name
    THEN {i \in DOMAIN table : table[i] = name}
    ELSE {NoRow}

\* Lines 11-16: insert and commit at once; the insert fails on a duplicate name.
create_tag(s, new_id, name) ==
    LET pending == [i \in DOMAIN s.pending \cup {new_id} |->
                        IF i = new_id THEN name ELSE s.pending[i]]
    IN IF TagNamesUnique(pending)
       THEN Outcome(commit([s EXCEPT !.pending = pending]), new_id, FALSE)
       ELSE Outcome(s, NoRow, TRUE)

\* get_or_create_tag that inserts without looking the name up.
get_or_create_tag_always(s, found, new_id, name) == create_tag(s, new_id, name)

\* Lines 18-22, for the row `found` the lookup returned.
get_or_create_tag(s, found, new_id, name) ==
    IF found = NoRow THEN create_tag(s, new_id, name) ELSE Outcome(s, found, FALSE)

----------------------------------------------------------------------------
(* app/api/routes/design.py: one action per route, from the request to the *)
(* closing of its session.                                                 *)

NoPayload == [k \in {} |-> Null]

Request(op, id, name, payload) ==
    [op |-> op, id |-> id, name |-> name, payload |-> payload]

\* The attributes of a DesignSystem object: its columns (models/design.py).
OrmObject(table, id) ==
    [name |-> table[id].name, config |-> table[id].config,
     is_active |-> table[id].is_active]

\* The fields DesignSystemResponse requires of the object it is made from.
ResponseFields == {"name", "is_active"} \cup Sections

NoBody == [valid |-> FALSE, fields |-> NoPayload]

\* response_model=DesignSystemResponse with orm_mode: every field is read as
\* the attribute of that name of the returned object; a required field that
\* is not an attribute fails the validation of the response.
DesignSystemResponse(obj) ==
    IF ResponseFields \subseteq DOMAIN obj
    THEN [valid |-> TRUE, fields |-> [k \in ResponseFields |-> obj[k]]]
    ELSE NoBody

\* The routes whose response model is DesignSystemResponse.
RepresentationOps == {"create", "get", "get_active", "update", "set_active"}

\* The response of a request and the end of its session (get_db's finally).
\* status is the status the route function ends with, body what the response
\* model makes of the object the route returns.
Respond(req, s, status, ret, colors) ==
    /\ designs' = close(s)
    /\ pre' = designs
    /\ last' = [op |-> req.op, id |-> req.id, name |-> req.name,
                payload |-> req.payload, status |-> status, ret |-> ret,
                colors |-> colors,
                body |-> IF req.op \in RepresentationOps /\ ret \in DOMAIN close(s)
                         THEN DesignSystemResponse(OrmObject(close(s), ret))
                         ELSE NoBody]

\* Configs a create request carries: every section given (DesignSystemBase).
CreateConfigs ==
    {[k \in Sections |-> "doc_a"],
     [k \in Sections |-> IF k = "colors" THEN "doc_a" ELSE "doc_b"]}

\* POST /: lines 59-73.
CreateDesignSystemRoute(name, config) ==
    LET s == SessionLocal(designs)
        req == Request("create", NoRow, name, config)
    IN IF get_design_system_by_name(s.pending, name) # {NoRow}
       THEN /\ Respond(req, s, 400, NoRow, Null)
            /\ UNCHANGED <<nextDesignId, everActivated>>
       ELSE /\ nextDesignId <= MaxDesigns
            /\ LET out == create_design_system(s, nextDesignId, name, config)
               IN Respond(req, out.s, IF out.fault THEN 500 ELSE 201, out.ret, Null)
            /\ nextDesignId' = nextDesignId + 1
            /\ UNCHANGED everActivated

\* GET /active: lines 87-100.
read_active_design_system ==
    \E found \in get_active_design_system(designs) :
        /\ Respond(Request("get_active", NoRow, Null, NoPayload), SessionLocal(designs),
                   IF found = NoRow THEN 404 ELSE 200, found, Null)
        /\ UNCHANGED <<nextDesignId, everActivated>>

\* GET /{design_id}: lines 102-116.
ReadDesignSystemRoute(design_id) ==
    LET found == get_design_system(designs, design_id)
    IN /\ Respond(Request("get", design_id, Null, NoPayload), SessionLocal(designs),
                  IF found = NoRow THEN 404 ELSE 200, found, Null)
       /\ UNCHANGED <<nextDesignId, everActivated>>

\* PUT /{design_id}: lines 118-135.
UpdateDesignSystemRoute(design_id, kwargs) ==
    LET out == update_design_system(SessionLocal(designs), design_id,
                                    DesignSystemUpdate(kwargs))
    IN /\ Respond(Request("update", design_id, Null, kwargs), out.s,
                  IF out.fault THEN 500 ELSE IF out.ret = NoRow THEN 404 ELSE 200,
                  out.ret, Null)
       /\ UNCHANGED <<nextDesignId, everActivated>>

\* POST /{design_id}/activate: lines 137-151.
activate_design_system(design_id) ==
    LET out == set_active_design_system(SessionLocal(designs), design_id)
    IN /\ Respond(Request("set_active", design_id, Null, NoPayload), out.s,
                  IF out.ret = NoRow THEN 404 ELSE 200, out.ret, Null)
       /\ everActivated' = (everActivated \/ out.ret # NoRow)
       /\ UNCHANGED nextDesignId

\* DELETE /{design_id}: lines 153-167.
DeleteDesignSystemRoute(design_id) ==
    LET out == delete_design_system(SessionLocal(designs), design_id)
    IN /\ Respond(Request("delete", design_id, Null, NoPayload), out.s,
                  IF out.ret = NoRow THEN 400 ELSE 204, out.ret, Null)
       /\ UNCHANGED <<nextDesignId, everActivated>>

\* GET /color-scheme, lines 16-29: the colors of an active design system, or
\* the static default when there is none.
DefaultColors == "doc_default"
get_color_scheme(table) ==
    {IF found = NoRow THEN DefaultColors ELSE table[found].config["colors"] :
        found \in get_active_design_system(table)}

\* PUT /color-scheme: lines 31-57.
update_color_scheme(color_scheme) ==
    \E found \in get_active_design_system(designs) :
        LET s == SessionLocal(designs)
            req == Request("update_color_scheme", found, Null,
                           [colors |-> color_scheme])
        IN /\ IF found = NoRow
              THEN Respond(req, s, 404, NoRow, Null)
              ELSE LET config == [s.pending[found].config EXCEPT !["colors"] = color_scheme]
                       update_data == DesignSystemUpdate([config |-> config])
                       out == update_design_system(s, found, update_data)
                   IN Respond(req, out.s, IF out.fault THEN 500 ELSE 200, out.ret,
                              close(out.s)[found].config["colors"])
           /\ UNCHANGED <<nextDesignId, everActivated>>

\* The partial updates the registry's life cycle is explored with.
LifecycleUpdates ==
    {[colors |-> "doc_b"], [name |-> "Test Theme"],
     [name |-> "Default Theme", typography |-> "doc_a"]}

DesignIds == 1 .. MaxDesigns + 1

\* The data tables of an empty database, before any data request.
NoTable == [i \in {} |-> Null]
DataDb(tagTable, itemTable, rowTable) ==
    [tags |-> tagTable, items |-> itemTable, data_tags |-> rowTable]
NoDataRequest ==
    [op |-> "none", id |-> NoRow, payload |-> NoPayload, status |-> 0, ret |-> NoRow,
     tags |-> <<>>, data |-> <<>>, total |-> 0, pages |-> <<>>]
NoPaging ==
    [fn |-> "none", skip |-> 0, limit |-> 0, total |-> 0, status |-> 0,
     page |-> 0, page_size |-> 0, total_pages |-> 0]
InitData ==
    /\ items = NoTable
    /\ data_tags = NoTable
    /\ nextItemId = 1
    /\ preData = DataDb(NoTable, NoTable, NoTable)
    /\ lastData = NoDataRequest
    /\ paged = NoPaging

\* No request in flight: every request of the sequential specifications runs
\* from its start to the closing of its session in one step.
NoProcs == [p \in {} |-> Null]

Init ==
    /\ designs = [i \in {} |-> Null]
    /\ nextDesignId = 1
    /\ everActivated = FALSE
    /\ pre = [i \in {} |-> Null]
    /\ last = [op |-> "none", id |-> NoRow, name |-> Null, payload |-> NoPayload,
               status |-> 0, ret |-> NoRow, colors |-> Null, body |-> NoBody]
    /\ tags = [i \in {} |-> Null]
    /\ nextTagId = 1
    /\ returned = [n \in TagNames |-> {}]
    /\ lastTag = [name |-> Null, ret |-> NoRow, hit |-> FALSE, fault |-> FALSE]
    /\ InitData
    /\ procs = NoProcs

Create ==
    /\ \E name \in Names, config \in CreateConfigs : CreateDesignSystemRoute(name, config)
    /\ UNCHANGED <<tagVars, itemVars, procs>>
GetActive ==
    /\ read_active_design_system
    /\ UNCHANGED <<tagVars, itemVars, procs>>
GetById ==
    /\ \E id \in DesignIds : ReadDesignSystemRoute(id)
    /\ UNCHANGED <<tagVars, itemVars, procs>>
Update ==
    /\ \E id \in DesignIds, kwargs \in LifecycleUpdates : UpdateDesignSystemRoute(id, kwargs)
    /\ UNCHANGED <<tagVars, itemVars, procs>>
SetActive ==
    /\ \E id \in DesignIds : activate_design_system(id)
    /\ UNCHANGED <<tagVars, itemVars, procs>>
Delete ==
    /\ \E id \in DesignIds : DeleteDesignSystemRoute(id)
    /\ UNCHANGED <<tagVars, itemVars, procs>>
UpdateColors ==
    /\ \E c \in SectionVals : update_color_scheme(c)
    /\ UNCHANGED <<tagVars, itemVars, procs>>

Next == Create \/ GetActive \/ GetById \/ Update \/ SetActive \/ Delete \/ UpdateColors

Spec == Init /\ [][Next]_vars

----------------------------------------------------------------------------
(* update_design_system on its own: every partial update the schema accepts, *)
(* applied once to a registry of two design systems.                        *)

ConfigWithNull == [k \in Sections |-> IF k = "spacing" THEN Null ELSE "doc_a"]

UpdateValues(k) ==
    IF k = "name" THEN {"Alternative Theme", "Test Theme", Null} ELSE {"doc_b", Null}

\* DesignSystemUpdate: every field optional, each one absent, null or a value.
UpdatePayloads ==
    UNION {{f \in [D -> {"Alternative Theme", "Test Theme", "doc_b", Null}] :
                \A k \in D : f[k] \in UpdateValues(k)} : D \in SUBSET UpdateFields}

InitUpdate ==
    /\ \E config \in CreateConfigs \cup {ConfigWithNull}, a1, a2 \in BOOLEAN :
          designs = (1 :> [name |-> "Default Theme", config |-> config, is_active |-> a1])
                    @@ (2 :> [name |-> "Alternative Theme",
                              config |-> [k \in Sections |-> "doc_a"],
                              is_active |-> a2])
    /\ nextDesignId = 3
    /\ everActivated = FALSE
    /\ pre = designs
    /\ last = [op |-> "none", id |-> NoRow, name |-> Null, payload |-> NoPayload,
               status |-> 0, ret |-> NoRow, colors |-> Null, body |-> NoBody]
    /\ tags = [i \in {} |-> Null]
    /\ nextTagId = 1
    /\ returned = [n \in TagNames |-> {}]
    /\ lastTag = [name |-> Null, ret |-> NoRow, hit |-> FALSE, fault |-> FALSE]
    /\ InitData
    /\ procs = NoProcs

UpdateAny ==
    /\ last.op = "none"
    /\ \E id \in 1 .. 3, kwargs \in UpdatePayloads : UpdateDesignSystemRoute(id, kwargs)
    /\ UNCHANGED <<tagVars, itemVars, procs>>

UpdateSpec == InitUpdate /\ [][UpdateAny]_vars

----------------------------------------------------------------------------
(* Design systems created, then one update with any partial payload.        *)

CreateFirst ==
    /\ last.op \in {"none", "create"}
    /\ \E name \in Names, config \in CreateConfigs : CreateDesignSystemRoute(name, config)
    /\ UNCHANGED <<tagVars, itemVars, procs>>

UpdateOnce ==
    /\ last.op \in {"none", "create"}
    /\ \E id \in DesignIds, kwargs \in UpdatePayloads : UpdateDesignSystemRoute(id, kwargs)
    /\ UNCHANGED <<tagVars, itemVars, procs>>

ConfigNext == CreateFirst \/ UpdateOnce

ConfigSpec == Init /\ [][ConfigNext]_vars

----------------------------------------------------------------------------
(* get_or_create_tag called sequentially, each call in a session of its own. *)

GetOrCreateTagCall(name) ==
    \E found \in get_tag_by_name(tags, name) :
        LET out == get_or_create_tag(SessionLocal(tags), found, nextTagId, name)
        IN /\ found = NoRow => nextTagId <= MaxTags
           /\ tags' = close(out.s)
           /\ nextTagId' = IF found = NoRow THEN nextTagId + 1 ELSE nextTagId
           /\ returned' = IF out.fault THEN returned
                          ELSE [returned EXCEPT ![name] = @ \cup {out.ret}]
           /\ lastTag' = [name |-> name, ret |-> out.ret, hit |-> found # NoRow,
                          fault |-> out.fault]

GetOrCreateTag ==
    /\ \E name \in TagNames : GetOrCreateTagCall(name)
    /\ UNCHANGED <<designVars, itemVars, procs>>

TagSpec == Init /\ [][GetOrCreateTag]_vars

----------------------------------------------------------------------------
(* app/crud/data.py: data items.  Inside a request the tags are committed   *)
(* as they are created (create_tag commits); what is pending is the item    *)
(* object: its columns and its tags list, a Python list.                    *)

\* A NULL text column, None for an Optional[str].
NullText == <<Null>>
\* tags: null in an update payload.
NullTags == <<Null>>

Range(seq) == {seq[i] : i \in DOMAIN seq}
Count(seq, x) == Cardinality({i \in DOMAIN seq : seq[i] = x})

\* The entities a Query or a lazy load returns: the ORM keeps one object per
\* identity, in the order of the first row of each.
RECURSIVE unique_list(_)
unique_list(seq) ==
    IF seq = <<>> THEN <<>>
    ELSE LET front == unique_list(SubSeq(seq, 1, Len(seq) - 1))
             x == seq[Len(seq)]
         IN IF x \in Range(front) THEN front ELSE Append(front, x)

\* The data_tags rows of an item: the table has no key, a pair may repeat.
RowsOf(db, id) == IF id \in DOMAIN db.data_tags THEN db.data_tags[id] ELSE <<>>

\* DynamicData(title=..., description=..., content=...): a transient object.
NewItem(id, title, description, content) ==
    [id |-> id, title |-> title, description |-> description, content |-> content,
     tags |-> <<>>, orig |-> <<>>, attached |-> FALSE]

\* get_data_item, lines 24-25, for a row that exists: a persistent object; its
\* tags collection loads as the distinct tags of its rows (orig: as loaded).
LoadItem(db, id) ==
    [id |-> id, title |-> db.items[id].title, description |-> db.items[id].description,
     content |-> db.items[id].content, tags |-> unique_list(RowsOf(db, id)),
     orig |-> unique_list(RowsOf(db, id)), attached |-> TRUE]

\* The unit of work of a data request: the database as committed so far, the
\* item object, the tags sequence, and whether a fault was raised.
Uow(db, obj, nextTag) == [db |-> db, obj |-> obj, nextTagId |-> nextTag, fault |-> FALSE]

\* The flush of the item object: its row is written; one data_tags row is
\* deleted per tag that left the collection and one inserted per entry that
\* joined it.  The DELETE of a pair that has several rows matches more rows than
\* the one expected: StaleDataError where the driver reports row counts
\* (sane_rowcount), all of them deleted where it does not.
FlushItem(db, obj, sane_rowcount) ==
    LET rows == RowsOf(db, obj.id)
        deleted == Range(obj.orig) \ Range(obj.tags)
        added == SelectSeq(obj.tags, LAMBDA x : x \notin Range(obj.orig))
        kept == SelectSeq(rows, LAMBDA x : x \notin deleted)
        stale == \E x \in deleted : Count(rows, x) # 1
        row == [title |-> obj.title, description |-> obj.description,
                content |-> obj.content]
    IN IF stale /\ sane_rowcount
       THEN [db |-> db, fault |-> TRUE]
       ELSE [db |-> [db EXCEPT
                       !.items = [i \in DOMAIN db.items \cup {obj.id} |->
                                     IF i = obj.id THEN row ELSE db.items[i]],
                       !.data_tags = [i \in DOMAIN db.data_tags \cup {obj.id} |->
                                         IF i = obj.id THEN kept \o added
                                         ELSE db.data_tags[i]]],
             fault |-> FALSE]

\* db.commit() in a data request, tag_table being the tags table with the tag
\* inserts of this flush: the item object is flushed too when it is in the
\* session, and expires (its collection reloads from the rows).  A fault rolls
\* the whole flush back.
commit_uow(u, tag_table, sane_rowcount) ==
    IF ~u.obj.attached THEN [u EXCEPT !.db.tags = tag_table]
    ELSE LET fl == FlushItem([u.db EXCEPT !.tags = tag_table], u.obj, sane_rowcount)
         IN IF fl.fault THEN [u EXCEPT !.fault = TRUE]
            ELSE [u EXCEPT !.db = fl.db,
                           !.obj.tags = unique_list(RowsOf(fl.db, u.obj.id)),
                           !.obj.orig = unique_list(RowsOf(fl.db, u.obj.id))]

\* Lines 68-70 and 98-100: for tag_name in tags: get_or_create_tag, append.
\* The commit of create_tag commits the whole session.  With cascade_backrefs
\* (SQLAlchemy 1.x) the append puts a new item into the session of its tag, so
\* a later create_tag commits the item as well.  An insert that is rolled back
\* leaves its id free (ids only have to be fresh).
AppendTagStep(u, found, name, cascade_backrefs, sane_rowcount) ==
    LET out == get_or_create_tag(SessionLocal(u.db.tags), found, u.nextTagId, name)
        drawn == [u EXCEPT !.nextTagId = IF found = NoRow THEN @ + 1 ELSE @]
        committed == IF found = NoRow /\ ~out.fault
                     THEN commit_uow(drawn, close(out.s), sane_rowcount)
                     ELSE drawn
    IN IF out.fault \/ committed.fault
       THEN [committed EXCEPT !.fault = TRUE, !.nextTagId = u.nextTagId]
       ELSE [committed EXCEPT !.obj.tags = Append(@, out.ret),
                              !.obj.attached = @ \/ cascade_backrefs]

\* The loop over the names, each looked up in the tags table as committed by
\* the steps before it.
RECURSIVE AppendTags(_, _, _, _)
AppendTags(u, names, cascade_backrefs, sane_rowcount) ==
    IF names = <<>> \/ u.fault THEN u
    ELSE AppendTags(AppendTagStep(u, CHOOSE i \in get_tag_by_name(u.db.tags, Head(names)) : TRUE,
                                  Head(names), cascade_backrefs, sane_rowcount),
                    Tail(names), cascade_backrefs, sane_rowcount)

\* What a data crud call leaves: the committed tables, the tags sequence, the
\* id of the row it returns (NoRow for None/False), whether it raised, and the
\* tags collection of the returned object.
DataOutcome(u, ret) ==
    [db |-> u.db, nextTagId |-> u.nextTagId, ret |-> IF u.fault THEN NoRow ELSE ret,
     fault |-> u.fault, tags |-> IF u.fault THEN <<>> ELSE u.obj.tags]

\* Lines 58-75.  A new item has no data_tags row to delete, so no DELETE of its
\* flush can match a wrong number of rows.
create_data_item(db, new_id, nextTag, data_item, cascade_backrefs) ==
    LET u0 == Uow(db, NewItem(new_id, data_item.title, data_item.description,
                              data_item.content), nextTag)
        u1 == IF data_item.tags # <<>>
              THEN AppendTags(u0, data_item.tags, cascade_backrefs, TRUE)
              ELSE u0
        u2 == IF u1.fault THEN u1
              ELSE commit_uow([u1 EXCEPT !.obj.attached = TRUE], u1.db.tags, TRUE)
    IN DataOutcome(u2, new_id)

\* The fields DynamicDataUpdate declares.
DataUpdateFields == {"title", "description", "content", "tags"}

\* DynamicDataUpdate(**kwargs).dict(exclude_unset=True).
DynamicDataUpdate(kwargs) ==
    [k \in DOMAIN kwargs \cap DataUpdateFields |-> kwargs[k]]

\* Lines 86-89 with every basic field assigned, given or not.
SetFieldsAll(obj, update_data) ==
    [obj EXCEPT
        !.title = IF "title" \in DOMAIN update_data THEN update_data["title"] ELSE NullText,
        !.description = IF "description" \in DOMAIN update_data
                        THEN update_data["description"] ELSE NullText,
        !.content = IF "content" \in DOMAIN update_data THEN update_data["content"] ELSE Null]

\* Lines 86-89: setattr for each of title, description, content in update_data.
SetFields(obj, update_data) ==
    [obj EXCEPT
        !.title = IF "title" \in DOMAIN update_data THEN update_data["title"] ELSE @,
        !.description = IF "description" \in DOMAIN update_data
                        THEN update_data["description"] ELSE @,
        !.content = IF "content" \in DOMAIN update_data THEN update_data["content"] ELSE @]

\* Lines 77-103.  tags: null makes the for loop raise TypeError before anything
\* is flushed.
update_data_item(db, data_id, nextTag, update_data, sane_rowcount) ==
    IF data_id \notin DOMAIN db.items
    THEN [db |-> db, nextTagId |-> nextTag, ret |-> NoRow, fault |-> FALSE, tags |-> <<>>]
    ELSE LET u0 == Uow(db, SetFields(LoadItem(db, data_id), update_data), nextTag)
             u1 == IF "tags" \notin DOMAIN update_data THEN u0
                   ELSE IF update_data["tags"] = NullTags THEN [u0 EXCEPT !.fault = TRUE]
                   ELSE AppendTags([u0 EXCEPT !.obj.tags = <<>>], update_data["tags"],
                                   TRUE, sane_rowcount)
             u2 == IF u1.fault THEN u1 ELSE commit_uow(u1, u1.db.tags, sane_rowcount)
         IN DataOutcome(u2, data_id)

\* Lines 105-112: db.delete and commit; the flush deletes one data_tags row per
\* tag of the loaded collection, then the item row.
delete_data_item(db, data_id, sane_rowcount) ==
    IF data_id \notin DOMAIN db.items
    THEN [db |-> db, ret |-> NoRow, fault |-> FALSE]
    ELSE LET rows == RowsOf(db, data_id)
             stale == \E x \in Range(rows) : Count(rows, x) # 1
         IN IF stale /\ sane_rowcount
            THEN [db |-> db, ret |-> NoRow, fault |-> TRUE]
            ELSE [db |-> [db EXCEPT
                            !.items = [i \in DOMAIN db.items \ {data_id} |-> db.items[i]],
                            !.data_tags = [i \in DOMAIN db.data_tags \ {data_id} |->
                                              db.data_tags[i]]],
                  ret |-> data_id, fault |-> FALSE]

\* Python's //, which rounds toward minus infinity for either sign of b.
PyFloorDiv(a, b) == IF b > 0 THEN a \div b ELSE (-a) \div (-b)

\* Lines 46 and 134: page = skip // limit + 1 if limit else 1.
page_of(skip, limit) == IF limit # 0 THEN PyFloorDiv(skip, limit) + 1 ELSE 1

\* total // page_size + 1, which is one page too many on exact multiples.
total_pages_plus_one(total, page_size) ==
    IF page_size # 0 THEN PyFloorDiv(total, page_size) + 1 ELSE 1

\* Lines 48 and 136: (total + page_size - 1) // page_size if page_size else 1.
total_pages_of(total, page_size) ==
    IF page_size # 0 THEN PyFloorDiv(total + page_size - 1, page_size) ELSE 1

\* The ids of a table in primary-key order.
RECURSIVE Ascending(_)
Ascending(S) ==
    IF S = {} THEN <<>>
    ELSE LET m == CHOOSE x \in S : \A y \in S : x <= y
         IN <<m>> \o Ascending(S \ {m})

\* query.offset(skip).limit(limit) over the rows of the statement; a negative
\* LIMIT means no limit where the database accepts it (SQLite).
OffsetLimit(rows, skip, limit) ==
    LET upto == IF limit < 0 \/ skip + limit > Len(rows) THEN Len(rows) ELSE skip + limit
    IN SubSeq(rows, skip + 1, upto)

\* Line 37: join(DynamicData.tags).filter(Tag.name == tag): one row of the
\* statement per data_tags row whose tag has that name, the item id repeated.
RECURSIVE JoinRows(_, _, _)
JoinRows(db, ids, tag) ==
    IF ids = <<>> THEN <<>>
    ELSE LET rows == RowsOf(db, Head(ids))
             n == Cardinality({k \in DOMAIN rows : db.tags[rows[k]] = tag})
         IN [k \in 1..n |-> Head(ids)] \o JoinRows(db, Tail(ids), tag)

\* tag=None and tag="" alike: `if tag:` is false for both.
NoTag == ""

\* What a listing returns: the items of the page, the pagination fields, and
\* whether the statement raised.
Listing(data, total, skip, limit, fault) ==
    [data |-> data, total |-> total, page |-> page_of(skip, limit), page_size |-> limit,
     total_pages |-> total_pages_of(total, limit), fault |-> fault]

\* Lines 27-56.  count() counts the rows of the statement; all() returns each
\* item once.  rejects_negative_limit: the database raises on LIMIT -n.
get_data_items(db, skip, limit, tag, rejects_negative_limit) ==
    LET ids == Ascending(DOMAIN db.items)
        rows == IF tag # NoTag THEN JoinRows(db, ids, tag) ELSE ids
    IN IF limit < 0 /\ rejects_negative_limit
       THEN Listing(<<>>, Len(rows), skip, limit, TRUE)
       ELSE Listing(unique_list(OffsetLimit(rows, skip, limit)), Len(rows), skip, limit,
                    FALSE)

\* func.lower, on the characters of the model's alphabet.
LowerChar(c) == IF c = "A" THEN "a" ELSE c
LowerText(text) == [k \in DOMAIN text |-> LowerChar(text[k])]

\* text LIKE pattern: % stands for any run of characters, _ for any one
\* character, every other character for itself.
RECURSIVE Like(_, _)
Like(text, pattern) ==
    IF pattern = <<>> THEN text = <<>>
    ELSE IF Head(pattern) = "%"
         THEN Like(text, Tail(pattern)) \/ (text # <<>> /\ Like(Tail(text), pattern))
         ELSE /\ text # <<>>
              /\ Head(pattern) = "_" \/ Head(pattern) = Head(text)
              /\ Like(Tail(text), Tail(pattern))

\* Lines 121-125: lower(column) LIKE lower('%' + query + '%'); a NULL column
\* gives NULL, which is not true.
ColumnMatches(column, query) ==
    /\ column # NullText
    /\ Like(LowerText(column), LowerText(<<"%">> \o query \o <<"%">>))

\* Lines 114-144.
search_data_items(db, query, skip, limit, rejects_negative_limit) ==
    LET rows == SelectSeq(Ascending(DOMAIN db.items),
                          LAMBDA i : \/ ColumnMatches(db.items[i].title, query)
                                     \/ ColumnMatches(db.items[i].description, query))
    IN IF limit < 0 /\ rejects_negative_limit
       THEN Listing(<<>>, Len(rows), skip, limit, TRUE)
       ELSE Listing(unique_list(OffsetLimit(rows, skip, limit)), Len(rows), skip, limit,
                    FALSE)

----------------------------------------------------------------------------
(* app/api/routes/data.py: one action per route, from the request to the    *)
(* closing of its session.                                                  *)

MaxItems == 2

DataRequest(op, id, payload) == [op |-> op, id |-> id, payload |-> payload]

\* The response of a data request and the end of its session.
RespondData(req, db, nextTag, status, ret, tag_list, data, total, pages) ==
    /\ tags' = db.tags
    /\ items' = db.items
    /\ data_tags' = db.data_tags
    /\ nextTagId' = nextTag
    /\ preData' = DataDb(tags, items, data_tags)
    /\ lastData' = [op |-> req.op, id |-> req.id, payload |-> req.payload,
                    status |-> status, ret |-> ret, tags |-> tag_list,
                    data |-> data, total |-> total, pages |-> pages]

\* response_model=DynamicDataResponse: title: str and content: Dict are
\* required of the row that is returned.
ResponseValid(db, id) ==
    /\ db.items[id].title # NullText
    /\ db.items[id].content # Null

\* POST /: lines 16-24.
CreateDataItemRoute(data_item, cascade_backrefs) ==
    LET out == create_data_item(DataDb(tags, items, data_tags), nextItemId, nextTagId,
                                data_item, cascade_backrefs)
    IN /\ nextItemId' = nextItemId + 1
       /\ RespondData(DataRequest("create", nextItemId, data_item), out.db, out.nextTagId,
                      IF out.fault THEN 500 ELSE 201, out.ret, out.tags, <<>>, 0, <<>>)

\* GET /{data_id}: lines 52-66.
ReadDataItemRoute(data_id) ==
    LET db == DataDb(tags, items, data_tags)
        found == data_id \in DOMAIN items
    IN /\ nextItemId' = nextItemId
       /\ RespondData(DataRequest("read", data_id, NoPayload), db, nextTagId,
                      IF ~found THEN 404 ELSE IF ResponseValid(db, data_id) THEN 200 ELSE 500,
                      IF found THEN data_id ELSE NoRow,
                      IF found THEN unique_list(RowsOf(db, data_id)) ELSE <<>>, <<>>, 0, <<>>)

\* PUT /{data_id}: lines 68-85.
UpdateDataItemRoute(data_id, kwargs, sane_rowcount) ==
    LET out == update_data_item(DataDb(tags, items, data_tags), data_id, nextTagId,
                                DynamicDataUpdate(kwargs), sane_rowcount)
        status == IF out.fault THEN 500
                  ELSE IF out.ret = NoRow THEN 404
                  ELSE IF ResponseValid(out.db, data_id) THEN 200 ELSE 500
    IN /\ nextItemId' = nextItemId
       /\ RespondData(DataRequest("update", data_id, kwargs), out.db, out.nextTagId,
                      status, out.ret, out.tags, <<>>, 0, <<>>)

\* DELETE /{data_id}: lines 87-101.
DeleteDataItemRoute(data_id, sane_rowcount) ==
    LET out == delete_data_item(DataDb(tags, items, data_tags), data_id, sane_rowcount)
        status == IF out.fault THEN 500 ELSE IF out.ret = NoRow THEN 404 ELSE 204
    IN /\ nextItemId' = nextItemId
       /\ RespondData(DataRequest("delete", data_id, NoPayload), out.db, nextTagId,
                      status, out.ret, <<>>, <<>>, 0, <<>>)

\* The pagination fields of a response.
Paged(fn, skip, limit, out, status) ==
    [fn |-> fn, skip |-> skip, limit |-> limit, total |-> out.total, status |-> status,
     page |-> out.page, page_size |-> out.page_size, total_pages |-> out.total_pages]

\* GET /: lines 26-37.
ReadDataItemsRoute(skip, limit, tag, rejects_negative_limit) ==
    LET db == DataDb(tags, items, data_tags)
        out == get_data_items(db, skip, limit, tag, rejects_negative_limit)
        status == IF out.fault THEN 500
                  ELSE IF \A i \in Range(out.data) : ResponseValid(db, i) THEN 200 ELSE 500
    IN /\ nextItemId' = nextItemId
       /\ RespondData(DataRequest("list", NoRow, [skip |-> skip, limit |-> limit, tag |-> tag]),
                      db, nextTagId, status, NoRow, <<>>, out.data, out.total,
                      <<out.page, out.page_size, out.total_pages>>)

\* Tag lists of the requests, one with a name given twice; the filters of a
\* listing, one of them the prefix of a tag name.
TagLists == {<<>>, <<"tag">>, <<"tag", "tag">>, <<"tagging">>}
TagFilters == {NoTag, "tag", "tagging"}
ItemIds == 1 .. MaxItems

DynamicDataCreate(title, tag_list) ==
    [title |-> title, description |-> NullText, content |-> "doc_a", tags |-> tag_list]

CreateItem ==
    /\ nextItemId <= MaxItems
    /\ \E tag_list \in TagLists, cascade_backrefs \in BOOLEAN :
          CreateDataItemRoute(DynamicDataCreate(<<"a">>, tag_list), cascade_backrefs)
    /\ UNCHANGED <<designVars, returned, lastTag, paged, procs>>

ReadItem ==
    /\ \E data_id \in ItemIds : ReadDataItemRoute(data_id)
    /\ UNCHANGED <<designVars, returned, lastTag, paged, procs>>

UpdateItem ==
    /\ \E data_id \in ItemIds, tag_list \in TagLists, sane_rowcount \in BOOLEAN :
          UpdateDataItemRoute(data_id, [tags |-> tag_list], sane_rowcount)
    /\ UNCHANGED <<designVars, returned, lastTag, paged, procs>>

DeleteItem ==
    /\ \E data_id \in ItemIds, sane_rowcount \in BOOLEAN :
          DeleteDataItemRoute(data_id, sane_rowcount)
    /\ UNCHANGED <<designVars, returned, lastTag, paged, procs>>

ListItems ==
    /\ \E skip \in 0 .. 1, limit \in 1 .. 2, tag \in TagFilters :
          ReadDataItemsRoute(skip, limit, tag, FALSE)
    /\ UNCHANGED <<designVars, returned, lastTag, paged, procs>>

DataNext == CreateItem \/ ReadItem \/ UpdateItem \/ DeleteItem \/ ListItems

DataSpec == Init /\ [][DataNext]_vars

----------------------------------------------------------------------------
(* Items created with any title the schema accepts, then one update with    *)
(* any partial payload.                                                     *)

\* title: str accepts the empty string.
ItemTitles == {<<"a">>, <<>>}

\* A field of a partial payload: absent, or one of the values.
Optional(field, values) == {NoPayload} \cup {field :> v : v \in values}

\* DynamicDataUpdate: every field Optional with default None, so each may be
\* absent, null or a value.
DataUpdatePayloads ==
    {t @@ d @@ c @@ g :
        t \in Optional("title", {<<"b">>, <<>>, NullText}),
        d \in Optional("description", {<<"d">>, NullText}),
        c \in Optional("content", {"doc_b", Null}),
        g \in Optional("tags", {<<>>, <<"tagging">>, NullTags})}

CreateTitled ==
    /\ lastData.op \in {"none", "create"}
    /\ nextItemId <= MaxItems
    /\ \E title \in ItemTitles, tag_list \in {<<>>, <<"tag">>, <<"tag", "tag">>},
          cascade_backrefs \in BOOLEAN :
          CreateDataItemRoute(DynamicDataCreate(title, tag_list), cascade_backrefs)
    /\ UNCHANGED <<designVars, returned, lastTag, paged, procs>>

UpdateFieldsOnce ==
    /\ lastData.op \in {"none", "create"}
    /\ \E data_id \in ItemIds, kwargs \in DataUpdatePayloads, sane_rowcount \in BOOLEAN :
          UpdateDataItemRoute(data_id, kwargs, sane_rowcount)
    /\ UNCHANGED <<designVars, returned, lastTag, paged, procs>>

FieldNext == CreateTitled \/ UpdateFieldsOnce

FieldSpec == Init /\ [][FieldNext]_vars

----------------------------------------------------------------------------
(* The pagination fields of a listing or a search, lines 45-48 and 133-136, *)
(* for the skip, limit and total of one request.                            *)

MaxSkip == 5
MaxLimit == 3
MaxTotal == 6

\* Everything but the pagination request is as after construction.
InitPage ==
    /\ designs = NoTable
    /\ nextDesignId = 1
    /\ everActivated = FALSE
    /\ pre = NoTable
    /\ last = [op |-> "none", id |-> NoRow, name |-> Null, payload |-> NoPayload,
               status |-> 0, ret |-> NoRow, colors |-> Null, body |-> NoBody]
    /\ tags = NoTable
    /\ nextTagId = 1
    /\ returned = [n \in TagNames |-> {}]
    /\ lastTag = [name |-> Null, ret |-> NoRow, hit |-> FALSE, fault |-> FALSE]
    /\ items = NoTable
    /\ data_tags = NoTable
    /\ nextItemId = 1
    /\ preData = DataDb(NoTable, NoTable, NoTable)
    /\ lastData = NoDataRequest
    /\ procs = NoProcs
    /\ \E fn \in {"list", "search"}, skip \in 0 .. MaxSkip, limit \in -MaxLimit .. MaxLimit,
          total \in 0 .. MaxTotal :
          paged = [NoPaging EXCEPT !.fn = fn, !.skip = skip, !.limit = limit,
                                   !.total = total]

\* The response of the request: a negative LIMIT is an error of the statement
\* on the databases that reject it, and an unlimited page on the others.
Paginate ==
    /\ paged.status = 0
    /\ \E rejects_negative_limit \in BOOLEAN :
          LET fault == paged.limit < 0 /\ rejects_negative_limit
              out == Listing(<<>>, paged.total, paged.skip, paged.limit, fault)
          IN paged' = Paged(paged.fn, paged.skip, paged.limit, out,
                            IF fault THEN 500 ELSE 200)
    /\ UNCHANGED <<designVars, tagVars, items, data_tags, nextItemId, preData, lastData, procs>>

PageSpec == InitPage /\ [][Paginate]_vars

----------------------------------------------------------------------------
(* Items created with a title and a description, then one search.           *)

MaxQueryLen == 2
DefaultLimit == 100

\* The characters of a query string: letters of both cases and the two
\* characters that LIKE treats as wildcards.
Alphabet == {"a", "A", "b", "%", "_"}
Queries == UNION {[1 .. n -> Alphabet] : n \in 0 .. MaxQueryLen}

SearchTitles == {<<"A", "b">>, <<"a", "_">>, <<"%">>}
SearchDescriptions == {NullText, <<"b", "a">>}

\* GET /search: lines 39-50.
SearchDataItemsRoute(q, skip, limit, rejects_negative_limit) ==
    LET db == DataDb(tags, items, data_tags)
        out == search_data_items(db, q, skip, limit, rejects_negative_limit)
        status == IF out.fault THEN 500
                  ELSE IF \A i \in Range(out.data) : ResponseValid(db, i) THEN 200 ELSE 500
    IN /\ nextItemId' = nextItemId
       /\ RespondData(DataRequest("search", NoRow, [q |-> q, skip |-> skip, limit |-> limit]),
                      db, nextTagId, status, NoRow, <<>>, out.data, out.total,
                      <<out.page, out.page_size, out.total_pages>>)

CreateSearchable ==
    /\ lastData.op \in {"none", "create"}
    /\ nextItemId <= MaxItems
    /\ \E title \in SearchTitles, description \in SearchDescriptions,
          cascade_backrefs \in BOOLEAN :
          CreateDataItemRoute([title |-> title, description |-> description,
                               content |-> "doc_a", tags |-> <<>>], cascade_backrefs)
    /\ UNCHANGED <<designVars, returned, lastTag, paged, procs>>

SearchItems ==
    /\ lastData.op \in {"none", "create"}
    /\ \E q \in Queries : SearchDataItemsRoute(q, 0, DefaultLimit, FALSE)
    /\ UNCHANGED <<designVars, returned, lastTag, paged, procs>>

SearchNext == CreateSearchable \/ SearchItems

SearchSpec == Init /\ [][SearchNext]_vars

----------------------------------------------------------------------------
(* Two concurrent requests, each in a session of its own.  A step of a      *)
(* request is one statement, or a flush with its commit; the committed      *)
(* tables are what the statements of the other request see.                 *)

Procs == {1, 2}

\* A get_or_create_tag call about to run its lookup.
TagCall(name) ==
    [op |-> "get_or_create_tag", pc |-> "lookup", name |-> name, found |-> NoRow,
     ret |-> NoRow, fault |-> FALSE]

\* The store is as after construction, or holds one tag already; each process
\* calls get_or_create_tag with a name of its own choice.
InitTagRace ==
    /\ designs = NoTable
    /\ nextDesignId = 1
    /\ everActivated = FALSE
    /\ pre = NoTable
    /\ last = [op |-> "none", id |-> NoRow, name |-> Null, payload |-> NoPayload,
               status |-> 0, ret |-> NoRow, colors |-> Null, body |-> NoBody]
    /\ \E seen \in {NoTable, 1 :> "tagging"} :
          /\ tags = seen
          /\ nextTagId = Cardinality(DOMAIN seen) + 1
    /\ returned = [n \in TagNames |-> {}]
    /\ lastTag = [name |-> Null, ret |-> NoRow, hit |-> FALSE, fault |-> FALSE]
    /\ InitData
    /\ \E names \in [Procs -> TagNames] : procs = [p \in Procs |-> TagCall(names[p])]

\* Line 19: tag = get_tag_by_name(db, name), and line 20-21 when it is found.
TagLookupStep(p) ==
    /\ procs[p].pc = "lookup"
    /\ \E found \in get_tag_by_name(tags, procs[p].name) :
          procs' = [procs EXCEPT ![p].found = found,
                                 ![p].ret = found,
                                 ![p].pc = IF found = NoRow THEN "insert" ELSE "done"]
    /\ UNCHANGED <<tags, nextTagId>>

\* Line 22: create_tag: the insert and its commit, against the table as it is
\* committed by then.
TagInsertStep(p) ==
    /\ procs[p].pc = "insert"
    /\ LET out == get_or_create_tag(SessionLocal(tags), procs[p].found, nextTagId,
                                    procs[p].name)
       IN /\ tags' = close(out.s)
          /\ nextTagId' = nextTagId + 1
          /\ procs' = [procs EXCEPT ![p].ret = out.ret, ![p].fault = out.fault,
                                    ![p].pc = "done"]

TagLookup ==
    /\ \E p \in Procs : TagLookupStep(p)
    /\ UNCHANGED <<designVars, returned, lastTag, itemVars>>

TagInsert ==
    /\ \E p \in Procs : TagInsertStep(p)
    /\ UNCHANGED <<designVars, returned, lastTag, itemVars>>

TagRaceNext == TagLookup \/ TagInsert

TagRaceSpec == InitTagRace /\ [][TagRaceNext]_vars

----------------------------------------------------------------------------
(* set_active_design_system and delete_design_system, statement by          *)
(* statement, in two concurrent requests.  A transaction holds the rows it  *)
(* has written until it commits or its session is closed; a statement that  *)
(* writes a row another transaction holds waits for it.                     *)

NoWrites == [i \in {} |-> Null]

\* What the statements of a transaction read: the committed rows, with the
\* transaction's own writes in place of those it wrote.
View(table, writes) ==
    [i \in DOMAIN table |-> IF i \in DOMAIN writes THEN writes[i] ELSE table[i]]

\* Some of the rows are written and not yet committed by another request.
LockedByOther(p, ids) ==
    \E q \in DOMAIN procs \ {p} : DOMAIN procs[q].writes \cap ids # {}

DesignCall(op, id) ==
    [op |-> op, id |-> id, pc |-> IF op = "set_active" THEN "deactivate" ELSE "read",
     writes |-> NoWrites, ret |-> NoRow, fault |-> FALSE, removedActive |-> FALSE]

\* A table of MaxDesigns design systems as the requests leave it (at least one
\* active), and two requests, each a set_active or a delete of some id.
InitActivateRace ==
    /\ \E flags \in [1 .. MaxDesigns -> BOOLEAN] :
          /\ \E i \in 1 .. MaxDesigns : flags[i]
          /\ designs = [i \in 1 .. MaxDesigns |->
                           [name |-> IF i = 1 THEN "Default Theme"
                                     ELSE IF i = 2 THEN "Alternative Theme" ELSE Null,
                            config |-> [k \in Sections |-> "doc_a"],
                            is_active |-> flags[i]]]
    /\ nextDesignId = MaxDesigns + 1
    /\ everActivated = FALSE
    /\ pre = designs
    /\ last = [op |-> "none", id |-> NoRow, name |-> Null, payload |-> NoPayload,
               status |-> 0, ret |-> NoRow, colors |-> Null, body |-> NoBody]
    /\ tags = NoTable
    /\ nextTagId = 1
    /\ returned = [n \in TagNames |-> {}]
    /\ lastTag = [name |-> Null, ret |-> NoRow, hit |-> FALSE, fault |-> FALSE]
    /\ InitData
    /\ \E ops \in [Procs -> {"set_active", "delete"}], ids \in [Procs -> DesignIds] :
          procs = [p \in Procs |-> DesignCall(ops[p], ids[p])]

\* Line 57: the bulk UPDATE writes every row there is.  While another request
\* holds one of them the statement waits, or the database ends the wait with
\* a fault (deadlock victim, lock timeout, database busy).
DeactivateStep(p) ==
    /\ procs[p].pc = "deactivate"
    /\ IF LockedByOther(p, DOMAIN designs)
       THEN procs' = [procs EXCEPT ![p].pc = "done", ![p].fault = TRUE]
       ELSE procs' = [procs EXCEPT ![p].pc = "activate",
                                   ![p].writes = DeactivateAll(designs)]
    /\ UNCHANGED designs

\* Lines 60-67: the row is read inside the transaction; None leaves the
\* transaction to the rollback of db.close(), otherwise the flag is set and
\* the transaction commits.
ActivateStep(p) ==
    /\ procs[p].pc = "activate"
    /\ LET seen == View(designs, procs[p].writes)
           found == get_design_system(seen, procs[p].id)
       IN IF found = NoRow
          THEN /\ procs' = [procs EXCEPT ![p].pc = "done", ![p].writes = NoWrites]
               /\ UNCHANGED designs
          ELSE /\ designs' = [seen EXCEPT ![found].is_active = TRUE]
               /\ procs' = [procs EXCEPT ![p].pc = "done", ![p].writes = NoWrites,
                                         ![p].ret = found]

\* Lines 70-76: the row is read and its flag tested.
DeleteReadStep(p) ==
    /\ procs[p].pc = "read"
    /\ LET found == get_design_system(designs, procs[p].id)
       IN procs' = [procs EXCEPT
                       ![p].pc = IF found # NoRow /\ MayDelete(designs[found])
                                 THEN "delete" ELSE "done"]
    /\ UNCHANGED designs

\* Lines 78-80: DELETE ... WHERE id = :id and the commit; the statement waits
\* for a request that holds the row.  A row that is gone by then matches
\* nothing: the flush raises where the driver reports the row count.
DeleteWriteStep(p, sane_rowcount) ==
    /\ procs[p].pc = "delete"
    /\ ~LockedByOther(p, {procs[p].id})
    /\ IF procs[p].id \in DOMAIN designs
       THEN /\ designs' = [i \in DOMAIN designs \ {procs[p].id} |-> designs[i]]
            /\ procs' = [procs EXCEPT
                            ![p].pc = "done", ![p].ret = procs[p].id,
                            ![p].removedActive = designs[procs[p].id].is_active]
       ELSE /\ procs' = [procs EXCEPT ![p].pc = "done", ![p].fault = sane_rowcount,
                                      ![p].ret = IF sane_rowcount THEN NoRow
                                                 ELSE procs[p].id]
            /\ UNCHANGED designs

Deactivate ==
    /\ \E p \in Procs : DeactivateStep(p)
    /\ UNCHANGED <<nextDesignId, everActivated, pre, last, tagVars, itemVars>>

Activate ==
    /\ \E p \in Procs : ActivateStep(p)
    /\ UNCHANGED <<nextDesignId, everActivated, pre, last, tagVars, itemVars>>

DeleteRead ==
    /\ \E p \in Procs : DeleteReadStep(p)
    /\ UNCHANGED <<nextDesignId, everActivated, pre, last, tagVars, itemVars>>

DeleteWrite ==
    /\ \E p \in Procs, sane_rowcount \in BOOLEAN : DeleteWriteStep(p, sane_rowcount)
    /\ UNCHANGED <<nextDesignId, everActivated, pre, last, tagVars, itemVars>>

ActivateRaceNext == Deactivate \/ Activate \/ DeleteRead \/ DeleteWrite

ActivateRaceSpec == InitActivateRace /\ [][ActivateRaceNext]_vars

----------------------------------------------------------------------------
(* create_data_item and update_data_item, statement by statement, next to   *)
(* the get_or_create_tag call of another request.                           *)

MaxRaceTags == 2
RaceTagNames == {"tag", "tagging", "test"}

\* The tag lists of the payloads: up to MaxRaceTags names, none given twice.
RaceTagLists ==
    {s \in UNION {[1 .. n -> RaceTagNames] : n \in 0 .. MaxRaceTags} :
        \A i, j \in DOMAIN s : i # j => s[i] # s[j]}

RaceUpdatePayloads ==
    {t @@ g : t \in Optional("title", {<<"b">>}),
              g \in Optional("tags", RaceTagLists \cup {NullTags})}

\* A create_data_item or update_data_item call about to run its first line.
DataCall(op, id, payload, cascade_backrefs) ==
    [op |-> op, pc |-> "begin", id |-> id, payload |-> payload,
     cascade_backrefs |-> cascade_backrefs,
     obj |-> NewItem(id, NullText, NullText, Null), rest |-> <<>>,
     found |-> NoRow, ret |-> NoRow, fault |-> FALSE]

\* One item with one tag, as a create request leaves it.  Request 1 creates an
\* item or updates the stored one; request 2 is at a get_or_create_tag call.
InitDataRace ==
    /\ designs = NoTable
    /\ nextDesignId = 1
    /\ everActivated = FALSE
    /\ pre = NoTable
    /\ last = [op |-> "none", id |-> NoRow, name |-> Null, payload |-> NoPayload,
               status |-> 0, ret |-> NoRow, colors |-> Null, body |-> NoBody]
    /\ tags = 1 :> "tag"
    /\ nextTagId = 2
    /\ returned = [n \in TagNames |-> {}]
    /\ lastTag = [name |-> Null, ret |-> NoRow, hit |-> FALSE, fault |-> FALSE]
    /\ items = 1 :> [title |-> <<"a">>, description |-> NullText, content |-> "doc_a"]
    /\ data_tags = 1 :> <<1>>
    /\ nextItemId = 2
    /\ preData = DataDb(tags, items, data_tags)
    /\ lastData = NoDataRequest
    /\ paged = NoPaging
    /\ \E call \in {DataCall("create", 2, DynamicDataCreate(<<"b">>, tag_list), cb) :
                        tag_list \in RaceTagLists, cb \in BOOLEAN}
                   \cup {DataCall("update", 1, DynamicDataUpdate(kwargs), TRUE) :
                            kwargs \in RaceUpdatePayloads},
          name \in RaceTagNames :
          procs = (1 :> call) @@ (2 :> TagCall(name))

\* The position after the begin of the call or after a name is done.
NextName(rest) == IF rest = <<>> THEN "commit" ELSE "resolve"

\* Lines 59-66 of create_data_item; lines 80-95 of update_data_item (tags:
\* null raises at line 97 with nothing flushed).
DataBeginStep(p) ==
    /\ procs[p].pc = "begin"
    /\ procs[p].op \in {"create", "update"}
    /\ LET c == procs[p]
           db == DataDb(tags, items, data_tags)
       IN IF c.op = "create"
          THEN procs' = [procs EXCEPT
                            ![p].obj = NewItem(c.id, c.payload.title,
                                               c.payload.description, c.payload.content),
                            ![p].rest = c.payload.tags,
                            ![p].pc = NextName(c.payload.tags)]
          ELSE IF c.id \notin DOMAIN items
          THEN procs' = [procs EXCEPT ![p].pc = "done"]
          ELSE LET loaded == SetFields(LoadItem(db, c.id), c.payload)
               IN IF "tags" \notin DOMAIN c.payload
                  THEN procs' = [procs EXCEPT ![p].obj = loaded, ![p].pc = "commit"]
                  ELSE IF c.payload["tags"] = NullTags
                  THEN procs' = [procs EXCEPT ![p].pc = "done", ![p].fault = TRUE]
                  ELSE procs' = [procs EXCEPT
                                    ![p].obj = [loaded EXCEPT !.tags = <<>>],
                                    ![p].rest = c.payload["tags"],
                                    ![p].pc = NextName(c.payload["tags"])]
    /\ UNCHANGED <<tags, nextTagId, items, data_tags>>

\* Line 19 for the next name of the loop; a tag that is found is appended
\* (lines 70, 99) without a statement.
DataResolveStep(p) ==
    /\ procs[p].pc = "resolve"
    /\ LET c == procs[p]
           name == Head(c.rest)
       IN \E found \in get_tag_by_name(tags, name) :
             IF found = NoRow
             THEN procs' = [procs EXCEPT ![p].found = NoRow, ![p].pc = "create_tag"]
             ELSE LET u == AppendTagStep(Uow(DataDb(tags, items, data_tags), c.obj,
                                             nextTagId),
                                         found, name, c.cascade_backrefs, TRUE)
                  IN procs' = [procs EXCEPT ![p].obj = u.obj, ![p].rest = Tail(c.rest),
                                            ![p].pc = NextName(Tail(c.rest))]
    /\ UNCHANGED <<tags, nextTagId, items, data_tags>>

\* Line 22: create_tag for a name the lookup missed: the insert and the commit
\* of the session, against the tables as committed by then; then the append.
DataCreateTagStep(p) ==
    /\ procs[p].pc = "create_tag"
    /\ LET c == procs[p]
           u == AppendTagStep(Uow(DataDb(tags, items, data_tags), c.obj, nextTagId),
                              NoRow, Head(c.rest), c.cascade_backrefs, TRUE)
       IN /\ tags' = u.db.tags
          /\ items' = u.db.items
          /\ data_tags' = u.db.data_tags
          /\ nextTagId' = u.nextTagId
          /\ procs' = IF u.fault
                      THEN [procs EXCEPT ![p].pc = "done", ![p].fault = TRUE]
                      ELSE [procs EXCEPT ![p].obj = u.obj, ![p].rest = Tail(c.rest),
                                         ![p].pc = NextName(Tail(c.rest))]

\* Lines 72-75 and 101-103: db.add (create) and the commit at the end.
DataCommitStep(p) ==
    /\ procs[p].pc = "commit"
    /\ LET c == procs[p]
           u == commit_uow(Uow(DataDb(tags, items, data_tags),
                               [c.obj EXCEPT !.attached = TRUE], nextTagId),
                           tags, TRUE)
       IN /\ tags' = u.db.tags
          /\ items' = u.db.items
          /\ data_tags' = u.db.data_tags
          /\ nextTagId' = u.nextTagId
          /\ procs' = [procs EXCEPT ![p].obj = u.obj, ![p].pc = "done",
                                    ![p].fault = u.fault,
                                    ![p].ret = IF u.fault THEN NoRow ELSE c.id]

DataBegin ==
    /\ \E p \in Procs : DataBeginStep(p)
    /\ UNCHANGED <<designVars, returned, lastTag, nextItemId, preData, lastData, paged>>

DataResolve ==
    /\ \E p \in Procs : DataResolveStep(p)
    /\ UNCHANGED <<designVars, returned, lastTag, nextItemId, preData, lastData, paged>>

DataCreateTag ==
    /\ \E p \in Procs : DataCreateTagStep(p)
    /\ UNCHANGED <<designVars, returned, lastTag, nextItemId, preData, lastData, paged>>

DataCommit ==
    /\ \E p \in Procs : DataCommitStep(p)
    /\ UNCHANGED <<designVars, returned, lastTag, nextItemId, preData, lastData, paged>>

DataRaceNext ==
    DataBegin \/ DataResolve \/ DataCreateTag \/ DataCommit \/ TagLookup \/ TagInsert

DataRaceSpec == InitDataRace /\ [][DataRaceNext]_vars

----------------------------------------------------------------------------
(* Properties of the design-system registry (checked under Spec) *)

\* C1: in every reachable state at most one design system has is_active = TRUE,
\* also right after create.
AtMostOneActive == Cardinality(ActiveIds(designs)) <= 1

\* C2: after set_active(X) completes for an existing X, from any prior state,
\* exactly one design system is active, it is X, and get_active returns X.
SetActiveMakesTargetOnlyActive ==
    (last.op = "set_active" /\ last.id \in DOMAIN pre) =>
        /\ last.status = 200
        /\ last.ret = last.id
        /\ ActiveIds(designs) = {last.id}
        /\ get_active_design_system(designs) = {last.id}

\* C2 witness: an activation from a state with several active themes, the
\* target not the only one of them.
SetActiveFromSeveralActive ==
    /\ last.op = "set_active"
    /\ last.status = 200
    /\ Cardinality(ActiveIds(pre)) >= 2
    /\ ActiveIds(designs) = {last.id}

\* C3: set_active with an id that matches no design system reports not-found
\* and leaves every committed row, so every is_active flag, as it was.
SetActiveMissingIdChangesNothing ==
    (last.op = "set_active" /\ last.id \notin DOMAIN pre) =>
        /\ last.status = 404
        /\ DOMAIN designs = DOMAIN pre
        /\ \A i \in DOMAIN pre : designs[i].is_active = pre[i].is_active
        /\ designs = pre

\* C3 witness: a not-found activation while a theme was active.
SetActiveMissingIdWhileActive ==
    /\ last.op = "set_active"
    /\ last.status = 404
    /\ ActiveIds(pre) # {}
    /\ ActiveIds(designs) = ActiveIds(pre)

\* C4: delete fails and changes nothing when the target is active or missing;
\* it succeeds and removes exactly the target when it exists and is inactive.
DeleteGuard ==
    last.op = "delete" =>
        IF last.id \in DOMAIN pre /\ ~pre[last.id].is_active
        THEN /\ last.ret = last.id
             /\ last.status = 204
             /\ DOMAIN designs = DOMAIN pre \ {last.id}
             /\ \A i \in DOMAIN designs : designs[i] = pre[i]
        ELSE /\ last.ret = NoRow
             /\ last.status = 400
             /\ designs = pre

\* C4 witness: a delete aimed at the active theme, refused.
DeleteOfActiveRefused ==
    /\ last.op = "delete"
    /\ last.id \in DOMAIN pre
    /\ pre[last.id].is_active
    /\ last.ret = NoRow

\* C5: once a set_active call has succeeded, every later state has an active
\* design system.
OnceActivatedAlwaysActive ==
    everActivated => /\ ActiveIds(designs) # {}
                     /\ NoRow \notin get_active_design_system(designs)

\* C5 witness: a successful delete after an activation.
DeleteAfterActivation ==
    /\ everActivated
    /\ last.op = "delete"
    /\ last.status = 204
    /\ ActiveIds(designs) # {}

\* C6: get_active returns none as long as no set_active call has succeeded,
\* however many design systems were created; otherwise the one active row.
GetActiveNoneUntilActivated ==
    IF everActivated
    THEN \E i \in DOMAIN designs : get_active_design_system(designs) = {i}
    ELSE get_active_design_system(designs) = {NoRow}

\* C7: create with the name of an existing design system answers 400 and leaves
\* the store unchanged; with an unused name it inserts exactly one row carrying
\* the given name and the five given sections.
CreateRejectsDuplicateName ==
    last.op = "create" =>
        IF \E i \in DOMAIN pre : pre[i].name = last.name
        THEN /\ last.status = 400
             /\ designs = pre
        ELSE /\ last.status = 201
             /\ last.ret \notin DOMAIN pre
             /\ DOMAIN designs = DOMAIN pre \cup {last.ret}
             /\ designs[last.ret].name = last.name
             /\ designs[last.ret].config = last.payload
             /\ DOMAIN designs[last.ret].config = Sections
             /\ \A i \in DOMAIN pre : designs[i] = pre[i]

\* C7 witness: a create refused for its name.
CreateDuplicateRefused ==
    /\ last.op = "create"
    /\ last.status = 400
    /\ \E i \in DOMAIN pre : pre[i].name = last.name

\* C9: with an active design system, update_color_scheme(c) replaces its colors
\* section by c, keeps its other four sections, and get_color_scheme then
\* returns c.
UpdateColorSchemeReplacesColors ==
    (last.op = "update_color_scheme" /\ last.id # NoRow) =>
        /\ last.status = 200
        /\ designs[last.id].config["colors"] = last.payload["colors"]
        /\ \A k \in Sections \ {"colors"} :
               designs[last.id].config[k] = pre[last.id].config[k]
        /\ last.colors = last.payload["colors"]
        /\ (ActiveIds(designs) = {last.id} =>
               get_color_scheme(designs) = {last.payload["colors"]})

----------------------------------------------------------------------------
(* Properties of update_design_system (checked under UpdateSpec) *)

\* True when the update's new name is the name of another design system.
NameCollides(table, id, update_data) ==
    /\ "name" \in DOMAIN update_data
    /\ update_data["name"] # Null
    /\ \E j \in DOMAIN table \ {id} : table[j].name = update_data["name"]

----------------------------------------------------------------------------
(* Properties of the tag store (checked under TagSpec) *)

TagsNamed(name) == {i \in DOMAIN tags : tags[i] = name}

\* C10: get_or_create_tag returns the same identity every time it is called
\* with the same name, the table holds exactly one tag of that name, and two
\* distinct names (compared exactly, case included) get two distinct identities.
GetOrCreateTagIdempotent ==
    /\ ~lastTag.fault
    /\ \A n \in TagNames :
           returned[n] # {} => /\ Cardinality(returned[n]) = 1
                               /\ TagsNamed(n) = returned[n]
    /\ \A n, m \in TagNames : n # m => returned[n] \cap returned[m] = {}

\* C10 witness: a repeated call, with names that differ only in case both seen.
GetOrCreateTagRepeated ==
    /\ lastTag.hit
    /\ lastTag.ret \in returned[lastTag.name]
    /\ returned["tag"] # {}
    /\ returned["Tag"] # {}

----------------------------------------------------------------------------
(* Properties of the data items (DataSpec) *)

\* The names of the tags an item is associated with, in a database.
TagNamesOf(db, id) == {db.tags[x] : x \in Range(RowsOf(db, id))}

\* The items a tag filter lets pass.
ItemsTagged(db, tag) == {i \in DOMAIN db.items : tag \in TagNamesOf(db, i)}

Now == DataDb(tags, items, data_tags)

\* C11: a create request stores exactly one new item with the title,
\* description and content of the payload; the tags associated with it are
\* exactly the tags named in the payload; a name that already had a tag reuses
\* that tag (no second tag of the name, old tags untouched); and the response
\* lists one tag per distinct name.
CreateStoresItemWithNamedTags ==
    lastData.op = "create" =>
        LET id == lastData.id
            p == lastData.payload
        IN /\ lastData.status = 201
           /\ lastData.ret = id
           /\ id \notin DOMAIN preData.items
           /\ DOMAIN items = DOMAIN preData.items \cup {id}
           /\ \A i \in DOMAIN preData.items :
                 items[i] = preData.items[i] /\ RowsOf(Now, i) = RowsOf(preData, i)
           /\ items[id] = [title |-> p.title, description |-> p.description,
                           content |-> p.content]
           /\ Range(RowsOf(Now, id)) \subseteq DOMAIN tags
           /\ TagNamesOf(Now, id) = Range(p.tags)
           /\ \A n \in Range(p.tags) : Cardinality(TagsNamed(n)) = 1
           /\ \A x \in DOMAIN preData.tags : x \in DOMAIN tags /\ tags[x] = preData.tags[x]
           /\ Len(lastData.tags) = Cardinality(Range(p.tags))
           /\ {tags[x] : x \in Range(lastData.tags)} = Range(p.tags)

\* C11 witness: a completed create that names a tag another item already
\* carries, and is associated with that same tag.
CreateReusesExistingTag ==
    /\ lastData.op = "create"
    /\ lastData.status = 201
    /\ \E x \in DOMAIN preData.tags :
          /\ preData.tags[x] \in Range(lastData.payload.tags)
          /\ \E i \in DOMAIN preData.items : x \in Range(RowsOf(preData, i))
          /\ x \in Range(RowsOf(Now, lastData.id))

\* C12: a name given twice in a tag list leaves exactly one association between
\* the item and that tag: no pair is stored twice, the tag collection of the
\* response has no duplicate, and a listing filtered by the tag returns the item
\* once and counts it once in total.
TagGivenTwiceAssociatedOnce ==
    /\ \A i \in DOMAIN items : \A x \in Range(RowsOf(Now, i)) : Count(RowsOf(Now, i), x) = 1
    /\ \A x \in Range(lastData.tags) : Count(lastData.tags, x) = 1
    /\ lastData.op = "list" =>
          /\ \A i \in Range(lastData.data) : Count(lastData.data, i) = 1
          /\ lastData.total = Cardinality(ItemsTagged(Now, lastData.payload.tag))

\* C14: an update that carries tags replaces the whole association set of the
\* item: afterwards its tags are exactly the named ones, every tag that existed
\* still exists, and the tag sets of the other items are unchanged.
UpdateTagsReplacesAssociations ==
    (/\ lastData.op = "update"
     /\ "tags" \in DOMAIN lastData.payload
     /\ lastData.id \in DOMAIN preData.items) =>
        /\ lastData.status = 200
        /\ lastData.id \in DOMAIN items
        /\ TagNamesOf(Now, lastData.id) = Range(lastData.payload.tags)
        /\ \A x \in DOMAIN preData.tags : x \in DOMAIN tags /\ tags[x] = preData.tags[x]
        /\ \A i \in DOMAIN preData.items \ {lastData.id} :
              i \in DOMAIN items /\ TagNamesOf(Now, i) = TagNamesOf(preData, i)

\* C15: delete answers true and removes exactly the item when it exists (a read
\* of the id is then not-found), answers false and changes nothing when it does
\* not; no data request ever removes a tag.
DeleteRemovesExactlyThatItem ==
    /\ lastData.op = "delete" =>
          IF lastData.id \in DOMAIN preData.items
          THEN /\ lastData.status = 204
               /\ lastData.ret = lastData.id
               /\ DOMAIN items = DOMAIN preData.items \ {lastData.id}
               /\ \A i \in DOMAIN items :
                     items[i] = preData.items[i] /\ RowsOf(Now, i) = RowsOf(preData, i)
          ELSE /\ lastData.status = 404
               /\ lastData.ret = NoRow
               /\ Now = preData
    /\ lastData.op = "read" => (lastData.status = 404 <=> lastData.id \notin DOMAIN items)
    /\ \A x \in DOMAIN preData.tags : x \in DOMAIN tags /\ tags[x] = preData.tags[x]

\* C16: a listing filtered by a tag returns only items that carry a tag of
\* exactly that name, all of them when the page is large enough; a filter no
\* item passes gives an empty page and total 0 without an error; total is the
\* number of items that pass the filter, whatever skip and limit are.
TagFilterExactAndTotal ==
    (lastData.op = "list" /\ lastData.payload.tag # NoTag) =>
        LET passing == ItemsTagged(Now, lastData.payload.tag)
        IN /\ lastData.status = 200
           /\ Range(lastData.data) \subseteq passing
           /\ lastData.total = Cardinality(passing)
           /\ (lastData.payload.skip = 0 /\ lastData.payload.limit >= Cardinality(passing))
                 => Range(lastData.data) = passing

----------------------------------------------------------------------------
(* Properties of the partial update and of stored items (FieldSpec) *)

BasicFields == {"title", "description", "content"}

\* C13: an update whose payload omits tags leaves the tag set of the item
\* unchanged, gives each of title, description and content that the payload
\* carries the payload's value, and leaves every absent field, every other
\* item and the tag table as they were.
UpdateWithoutTagsKeepsTagSet ==
    (/\ lastData.op = "update"
     /\ "tags" \notin DOMAIN lastData.payload
     /\ lastData.id \in DOMAIN preData.items) =>
        /\ lastData.ret = lastData.id
        /\ DOMAIN items = DOMAIN preData.items
        /\ RowsOf(Now, lastData.id) = RowsOf(preData, lastData.id)
        /\ \A f \in BasicFields :
              items[lastData.id][f] = IF f \in DOMAIN lastData.payload
                                      THEN lastData.payload[f]
                                      ELSE preData.items[lastData.id][f]
        /\ \A i \in DOMAIN items \ {lastData.id} :
              items[i] = preData.items[i] /\ RowsOf(Now, i) = RowsOf(preData, i)
        /\ tags = preData.tags

\* C13 witness: a completed update of the title alone, on an item with a tag.
UpdateOfTitleAlone ==
    /\ lastData.op = "update"
    /\ lastData.status = 200
    /\ DOMAIN lastData.payload = {"title"}
    /\ lastData.id \in DOMAIN preData.items
    /\ items[lastData.id].title # preData.items[lastData.id].title
    /\ RowsOf(preData, lastData.id) # <<>>

\* C20: every stored data item has a non-empty title and a non-null content
\* document, after any create and any update the schemas accept.
StoredItemsWellFormed ==
    \A i \in DOMAIN items :
        /\ items[i].title # NullText
        /\ items[i].title # <<>>
        /\ items[i].content # Null

----------------------------------------------------------------------------
(* Properties of the pagination fields (PageSpec) *)

\* C17: for skip >= 0, limit > 0 and total >= 0 a listing or a search reports
\* page = floor(skip / limit) + 1, total_pages = ceil(total / limit) (0 when
\* total is 0) and page_size = limit.
PaginationLaw ==
    (paged.status # 0 /\ paged.limit > 0) =>
        /\ paged.status = 200
        /\ paged.page_size = paged.limit
        /\ (paged.page - 1) * paged.limit <= paged.skip
        /\ paged.skip < paged.page * paged.limit
        /\ paged.total_pages * paged.limit >= paged.total
        /\ (paged.total_pages - 1) * paged.limit < paged.total
        /\ paged.total = 0 => paged.total_pages = 0

\* C17 witness: a total that is an exact multiple of the limit, past page one.
PaginationOfExactMultiple ==
    /\ paged.status = 200
    /\ paged.limit > 1
    /\ paged.total = 2 * paged.limit
    /\ paged.total_pages = 2
    /\ paged.page = 2

\* C18: whenever limit is not greater than 0, zero or negative, a listing or a
\* search reports page = 1 and total_pages = 1, for every skip and total.
NonPositiveLimitGivesOnePage ==
    (paged.status # 0 /\ paged.limit <= 0) =>
        /\ paged.status = 200
        /\ paged.page = 1
        /\ paged.total_pages = 1

----------------------------------------------------------------------------
(* Properties of the search (SearchSpec) *)

\* text contains part as a literal substring.
Contains(text, part) ==
    \E k \in 0 .. Len(text) - Len(part) : SubSeq(text, k + 1, k + Len(part)) = part

\* The items a search for q is to match: lower-cased title, or lower-cased
\* non-null description, contains lower-cased q.
LiteralMatches(q) ==
    {i \in DOMAIN items :
        \/ /\ items[i].title # NullText
           /\ Contains(LowerText(items[i].title), LowerText(q))
        \/ /\ items[i].description # NullText
           /\ Contains(LowerText(items[i].description), LowerText(q))}

\* C19: a search for q returns exactly the items whose lower-cased title, or
\* non-null description, contains lower-cased q as a literal substring, for
\* every character of q, % and _ included; total counts exactly these.
SearchMatchesLiteralSubstring ==
    lastData.op = "search" =>
        /\ lastData.status = 200
        /\ Range(lastData.data) = LiteralMatches(lastData.payload.q)
        /\ lastData.total = Cardinality(LiteralMatches(lastData.payload.q))

----------------------------------------------------------------------------
(* Properties of the stored config (ConfigSpec) *)

\* C21: after any create and any update the schemas accept, the config of
\* every stored design system has all five sections, each a non-null record.
ConfigHasFiveSections ==
    \A i \in DOMAIN designs :
        /\ DOMAIN designs[i].config = Sections
        /\ \A k \in Sections : designs[i].config[k] # Null

----------------------------------------------------------------------------
(* Properties of the responses *)

\* C22: on every route that addresses a design system or a data item by its
\* identifier (get, update, delete, activate), a lookup that finds no row is
\* answered with 404; a create with a name that is taken is answered with 400.
NotFoundIs404 ==
    /\ (last.op \in {"get", "update", "set_active", "delete"} /\ last.id \notin DOMAIN pre)
          => last.status = 404
    /\ (lastData.op \in {"read", "update", "delete"}
            /\ lastData.id \notin DOMAIN preData.items)
          => lastData.status = 404
    /\ (last.op = "create" /\ \E i \in DOMAIN pre : pre[i].name = last.name)
          => last.status = 400

\* C25: the representation returned for a design system (by create, get,
\* update and activate) has name, is_active and the five sections at top
\* level, each equal to the stored one: a create returns the sections it was
\* given, an update the merged ones.
RepresentationShowsSections ==
    (last.op \in RepresentationOps /\ last.ret \in DOMAIN designs) =>
        /\ last.body.valid
        /\ last.body.fields["name"] = designs[last.ret].name
        /\ last.body.fields["is_active"] = designs[last.ret].is_active
        /\ \A k \in Sections : last.body.fields[k] = designs[last.ret].config[k]

\* C24: no create or update of a data item raises for a payload its schema
\* accepts (no uniqueness violation can occur in these sequential requests), an
\* update with tags, title or content null included; an update of a missing id
\* returns the sentinel and leaves the store unchanged.
NoCoreOperationThrows ==
    lastData.op \in {"create", "update"} =>
        /\ ~(lastData.status = 500 /\ lastData.ret = NoRow)
        /\ (lastData.op # "create" /\ lastData.id \notin DOMAIN preData.items)
              => (lastData.ret = NoRow /\ Now = preData)

----------------------------------------------------------------------------
(* Properties of concurrent requests *)

\* C26: under every interleaving of two get_or_create_tag calls the tag table
\* never holds two tags of one name; when both calls looked the same unseen
\* name up before either inserted, exactly one insert succeeds and the other
\* call ends in the storage fault, returning nothing.
TagRaceLeavesOneTag ==
    /\ \A i, j \in DOMAIN tags : i # j => tags[i] # tags[j]
    /\ \A p \in Procs : procs[p].fault => procs[p].ret = NoRow
    /\ \A p, q \in Procs :
          (/\ p # q
           /\ procs[p].name = procs[q].name
           /\ procs[p].pc = "done" /\ procs[q].pc = "done"
           /\ procs[p].found = NoRow /\ procs[q].found = NoRow)
             => /\ procs[p].fault # procs[q].fault
                /\ Cardinality(TagsNamed(procs[p].name)) = 1
                /\ \E r \in {p, q} : procs[r].ret \in TagsNamed(procs[p].name)

\* C26 witness: both lookups missed, one insert succeeded, the other faulted.
TagRaceLostInsert ==
    /\ procs[1].pc = "done" /\ procs[2].pc = "done"
    /\ procs[1].name = procs[2].name
    /\ procs[1].found = NoRow /\ procs[2].found = NoRow
    /\ procs[1].fault # procs[2].fault


\* C28: under every interleaving of set_active(A) and set_active(B) on
\* existing design systems A # B, once both calls have completed exactly one
\* design system is active, and it is A or B.
TwoActivationsLeaveOneActive ==
    (/\ \A p \in Procs : procs[p].op = "set_active" /\ procs[p].pc = "done"
     /\ procs[1].id # procs[2].id
     /\ \A p \in Procs : procs[p].id \in DOMAIN pre)
       => /\ Cardinality(ActiveIds(designs)) = 1
          /\ ActiveIds(designs) \subseteq {procs[1].id, procs[2].id}

\* C28 witness: both activations have committed, one after the other.
TwoActivationsCommitted ==
    /\ \A p \in Procs : procs[p].op = "set_active" /\ procs[p].pc = "done"
    /\ procs[1].id # procs[2].id
    /\ \A p \in Procs : procs[p].ret = procs[p].id
    /\ Cardinality(ActiveIds(pre)) = 2

\* C29: under every interleaving of delete(A) with set_active(A) the row a
\* delete removes is not the active one at the moment it is removed, so a
\* store that had an active design system keeps one.
DeleteNeverRemovesActive ==
    /\ \A p \in Procs : ~procs[p].removedActive
    /\ (\A p \in Procs : procs[p].pc = "done") => ActiveIds(designs) # {}


\* What the store holds of an item: its fields and the names of its tags.
ItemState(db, id) ==
    [title |-> db.items[id].title, description |-> db.items[id].description,
     content |-> db.items[id].content, tags |-> TagNamesOf(db, id)]

\* C23: a create_data_item or update_data_item that ends in a fault leaves
\* nothing of what it did in the store: no item, field or association
\* changed, and no tag other than the one the other request inserted.
FaultedCallLeavesNothing ==
    (procs[1].pc = "done" /\ procs[1].fault) =>
        /\ items = preData.items
        /\ data_tags = preData.data_tags
        /\ DOMAIN tags \ DOMAIN preData.tags \subseteq {procs[2].ret}

\* C30: while update_data_item runs, the committed state of the item is its
\* state before the call or the state the call is to leave, never one with
\* the new fields and a tag set that is cleared or holds some of the new tags.
UpdateShowsOnlyBeforeOrAfter ==
    (/\ procs[1].op = "update"
     /\ "tags" \in DOMAIN procs[1].payload
     /\ procs[1].payload["tags"] # NullTags)
       => LET before == ItemState(preData, procs[1].id)
              after == [before EXCEPT
                           !.title = IF "title" \in DOMAIN procs[1].payload
                                     THEN procs[1].payload["title"] ELSE @,
                           !.tags = Range(procs[1].payload["tags"])]
          IN ItemState(Now, procs[1].id) \in {before, after}


\* C27: with no concurrent write a listing or a search with skip >= 0 and
\* limit >= 0 returns exactly min(limit, max(0, total - skip)) items.
PageHoldsWhatTotalPromises ==
    (/\ lastData.op \in {"list", "search"}
     /\ lastData.status = 200
     /\ lastData.payload.skip >= 0
     /\ lastData.payload.limit >= 0)
       => LET left == IF lastData.total > lastData.payload.skip
                      THEN lastData.total - lastData.payload.skip ELSE 0
          IN Len(lastData.data)
               = IF lastData.payload.limit < left THEN lastData.payload.limit ELSE left

====
